---- MODULE Spec2Model ----
(***************************************************************************)
(* Article-content extraction and paywall detection pipeline of the        *)
(* Media-Monitoring-and-Analysis scripts.                                  *)
(*                                                                         *)
(* Three copies of the pipeline are modelled, each from its own source:    *)
(*   ETI  src/ET_news_integrated.py   (ArticleScraper + main)              *)
(*   ADE  src/articles_data_ET.py     (ArticleScraper)                     *)
(*   FNA  src/fetch_news_articles.py  (NewsArticleScraper)                 *)
(*                                                                         *)
(* Strings.  A name (class token, id, error text, url) is a sequence of    *)
(* pieces, cut so that every substring the code searches for is a run of   *)
(* whole pieces; Python's `x in s` is then a contiguous-subsequence test.  *)
(* A text is a sequence of tokens [k, n]: k = "w" is n non-blank           *)
(* characters, k = "s" is n whitespace characters, any other k is one      *)
(* verbatim occurrence of the phrase k (n = its length).                   *)
(*                                                                         *)
(* Documents.  A parsed page is the sequence of its top-level elements in  *)
(* document order; an element is [tag, cls, id, text, kids], kids being    *)
(* leaf elements (tag "#text" is a bare text node).                        *)
(***************************************************************************)
EXTENDS Integers, Sequences, FiniteSets, TLC

\* ------------------------------------------------------------------ bounds
\* Largest number of top-level elements of an enumerated document.
MaxElems == 2
\* Largest number of rows of the input CSV.
MaxRows == 2
\* Largest number of children of an enumerated candidate element.
MaxKids == 3

\* ---------------------------------------------------------- program constants
\* The minimum-content threshold (the literal 200 of every length test).
MinContentLength == 200

\* Python's None for an Optional[str] field.
None == <<>>

\* ------------------------------------------------------------------ strings
\* Python `needle in hay` on piece sequences.
InStr(needle, hay) ==
    \E i \in 1..(Len(hay) - Len(needle) + 1) :
        SubSeq(hay, i, i + Len(needle) - 1) = needle

\* str.lower() on the pieces used by the model.
Lower(s) ==
    [i \in 1..Len(s) |->
        CASE s[i] = "Paywall" -> "paywall"
          [] s[i] = "Subscribe" -> "subscribe"
          [] s[i] = "Sign in" -> "sign in"
          [] OTHER -> s[i]]

RECURSIVE TextLen(_)
\* len(text)
TextLen(t) == IF t = <<>> THEN 0 ELSE Head(t).n + TextLen(Tail(t))

W(n) == [k |-> "w", n |-> n]
S(n) == [k |-> "s", n |-> n]

\* One verbatim occurrence of a phrase.
Phrase(p) ==
    [k |-> p,
     n |-> CASE p = "Catch all the US News" -> 21
             [] p = "Download The Economic Times News App" -> 36
             [] p = "You can now subscribe to our Economic Times WhatsApp channel" -> 60
             [] p = "Disclaimer Statement:" -> 21
             [] p = "Read More News on" -> 17
             [] p = "Prime Exclusives" -> 16
             [] p = "Investment Ideas" -> 16
             [] p = "View all Stories" -> 16
             [] p = "(You can now subscribe to our" -> 29
             [] p = "Download The News App" -> 21
             [] p = "Subscribe to our WhatsApp channel" -> 33
             [] p = "Subscribe to read" -> 17
             [] p = "Subscribe" -> 9
             [] p = "Read More" -> 9
             [] p = "News on" -> 7
             [] OTHER -> 1]

RECURSIVE LStrip(_)
\* str.lstrip(): drop leading whitespace.
LStrip(t) == IF t # <<>> /\ Head(t).k = "s" THEN LStrip(Tail(t)) ELSE t

RECURSIVE RStrip(_)
\* str.rstrip(): drop trailing whitespace.
RStrip(t) ==
    IF t # <<>> /\ t[Len(t)].k = "s" THEN RStrip(SubSeq(t, 1, Len(t) - 1)) ELSE t

\* str.strip()
Strip(t) == RStrip(LStrip(t))

RECURSIVE CollapseWs(_)
\* re.sub(r'\s+', ' ', t): every whitespace run becomes one space.
CollapseWs(t) ==
    IF t = <<>> THEN <<>>
    ELSE IF Head(t).k = "s"
         THEN <<S(1)>> \o CollapseWs(LStrip(Tail(t)))
         ELSE <<Head(t)>> \o CollapseWs(Tail(t))

\* clean_text: strip, collapse whitespace runs; the three replace() calls
\* that follow find no '\n', '\r' or '\t' left and change nothing.
clean_text(text) ==
    IF text = <<>> THEN <<>> ELSE CollapseWs(Strip(text))

\* An opening parenthesis written right before a phrase.
Paren == [k |-> "(", n |-> 1]

\* Phrase p occurs in text t starting at token i.  Two configured phrases
\* overlap: '(You can now subscribe to our' also occurs where a parenthesis
\* is followed by 'You can now subscribe to our Economic Times WhatsApp channel'.
\* 'Read More News on' also occurs where its two halves are one space apart
\* (a whitespace token of length 1 is a space, a longer one is a run with
\* line breaks or tabs).
OccursAt(p, t, i) ==
    \/ t[i].k = p
    \/ /\ p = "(You can now subscribe to our"
       /\ t[i] = Paren /\ i < Len(t)
       /\ t[i + 1].k = "You can now subscribe to our Economic Times WhatsApp channel"
    \/ /\ p = "Read More News on"
       /\ i + 2 <= Len(t)
       /\ t[i].k = "Read More" /\ t[i + 1] = S(1) /\ t[i + 2].k = "News on"

\* Index of the first occurrence of phrase p in text t, 0 when absent.
FindPhrase(p, t) ==
    IF \E i \in 1..Len(t) : OccursAt(p, t, i)
    THEN CHOOSE i \in 1..Len(t) : OccursAt(p, t, i) /\ \A j \in 1..(i - 1) : ~OccursAt(p, t, j)
    ELSE 0

\* content.split(text)[0] under `if text in content`.
SplitFirst(content, p) ==
    IF FindPhrase(p, content) = 0 THEN content
    ELSE SubSeq(content, 1, FindPhrase(p, content) - 1)

RECURSIVE RemoveBoilerplate(_, _)
\* for text in boilerplate: if text in content: content = content.split(text)[0]
RemoveBoilerplate(content, boilerplate) ==
    IF boilerplate = <<>> THEN content
    ELSE RemoveBoilerplate(SplitFirst(content, Head(boilerplate)), Tail(boilerplate))

\* ------------------------------------------------------------- parsed pages
\* A bare text node.
TextNode(t) == [tag |-> "#text", cls |-> <<>>, id |-> <<>>, text |-> t, kids |-> <<>>]
\* A leaf element <tag class=cls id=id>t</tag>.
Leaf(tag, cls, id, t) == [tag |-> tag, cls |-> cls, id |-> id, text |-> t, kids |-> <<>>]
\* An element holding the leaves kids.
Container(tag, cls, id, kids) == [tag |-> tag, cls |-> cls, id |-> id, text |-> <<>>, kids |-> kids]

RECURSIVE Preorder(_)
\* The nodes of a page in document order (the order find and find_all visit).
Preorder(soup) ==
    IF soup = <<>> THEN <<>>
    ELSE <<Head(soup)>> \o Head(soup).kids \o Preorder(Tail(soup))

IsTag(e) == e.tag # "#text"

\* soup.find(...): the first of the nodes satisfying the test (hits), as a
\* sequence of 0 or 1.
First(hits) == IF hits = <<>> THEN <<>> ELSE <<Head(hits)>>

\* class_=name: some class token equals name.
HasClass(e, name) == \E i \in 1..Len(e.cls) : e.cls[i] = name
\* class_=lambda c: c and sub in c
ClassContains(e, sub) == \E i \in 1..Len(e.cls) : InStr(sub, e.cls[i])

\* soup.find(class_=name) for type "class", soup.find(name) for type "tag".
Selects(e, type, name) ==
    IF type = "class" THEN HasClass(e, name) ELSE <<e.tag>> = name

\* The index of the top-level element that soup.find returns for the
\* selector; 0 when it returns a leaf or nothing.
FoundTop(soup, type, name) ==
    LET cands == { i \in 1..Len(soup) :
                     \/ Selects(soup[i], type, name)
                     \/ \E k \in 1..Len(soup[i].kids) : Selects(soup[i].kids[k], type, name) }
        first == CHOOSE i \in cands : \A j \in cands : i <= j
    IN  IF cands # {} /\ Selects(soup[first], type, name) THEN first ELSE 0

\* The text nodes below (or at) a node, in document order.
Strings(e) ==
    (IF e.text # <<>> THEN <<e.text>> ELSE <<>>)
    \o [i \in 1..Len(SelectSeq(e.kids, LAMBDA k : k.text # <<>>)) |->
            SelectSeq(e.kids, LAMBDA k : k.text # <<>>)[i].text]

RECURSIVE Concat(_)
\* ''.join(strings)
Concat(strs) == IF strs = <<>> THEN <<>> ELSE Head(strs) \o Concat(Tail(strs))

RECURSIVE JoinSpace(_)
\* ' '.join(strings)
JoinSpace(strs) ==
    IF strs = <<>> THEN <<>>
    ELSE IF Len(strs) = 1 THEN Head(strs)
    ELSE Head(strs) \o <<S(1)>> \o JoinSpace(Tail(strs))

\* The stripped, non-empty strings of a list.
StrippedNonEmpty(strs) ==
    SelectSeq([i \in 1..Len(strs) |-> Strip(strs[i])], LAMBDA t : t # <<>>)

\* element.get_text(): all text nodes concatenated.
get_text(e) == Concat(Strings(e))

\* element.get_text(separator=' ', strip=True)
get_text_sep_strip(e) == JoinSpace(StrippedNonEmpty(Strings(e)))

\* ------------------------------------------------------------------- names
cArtText == <<"artText">>
cArticleWrap == <<"article", "_wrap">>
cArticleContent == <<"article", "-", "content">>
cStoryDetails == <<"story", "-details">>
cArticle_Content == <<"article", "_", "content">>
cArticleText == <<"article", "-text">>
cStoryContent == <<"story", "-", "content">>
cStoryBody == <<"story", "-body">>
cArticleBody == <<"article", "Body">>
cArticle_Body == <<"article", "-body">>
cMainContent == <<"main-", "content">>
cMainArea == <<"mainArea">>
cArticleBlocker == <<"article", "Blocker">>
cPaywallBox == <<"paywall", "_box">>
cPrimePaywall == <<"prime", "_", "paywall">>
cSubscribeBtn == <<"subscribe", "Btn">>
cPaywall == <<"paywall">>
cSubscriptionRequired == <<"subscription", "-required">>
cPremiumContent == <<"premium-", "content">>
cAds == <<"ads">>

\* ----------------------------------------------- ETI: ET_news_integrated.py
\* self.boilerplate_text
ETI_boilerplate_text ==
    << "Catch all the US News",
       "Download The Economic Times News App",
       "You can now subscribe to our Economic Times WhatsApp channel",
       "Disclaimer Statement:",
       "Read More News on",
       "Prime Exclusives",
       "Investment Ideas",
       "View all Stories",
       "(You can now subscribe to our",
       "Read More News on" >>

\* paywall_indicators of is_paywall_page
ETI_paywall_indicators ==
    << cArticleBlocker, cPaywallBox, cPrimePaywall, cSubscribeBtn, cPaywall,
       cSubscriptionRequired, cPremiumContent >>

\* paywall_texts of is_paywall_page
ETI_paywall_texts ==
    << "Subscribe to read",
       "Subscribe to continue reading",
       "This article is exclusively for subscribers",
       "To read the full article, subscribe",
       "Subscribe to ET Prime",
       "This article is locked" >>

\* `word in s.lower()` for a text s, word being 'subscribe' or 'sign in'.
LowerTextHas(t, word) ==
    \E i \in 1..Len(t) :
        \/ word = "subscribe" /\ t[i].k \in
              { "Subscribe", "subscribe", "Subscribe to read",
                "Subscribe to continue reading", "To read the full article, subscribe",
                "Subscribe to ET Prime", "Subscribe to our WhatsApp channel",
                "(You can now subscribe to our",
                "You can now subscribe to our Economic Times WhatsApp channel" }
        \/ word = "sign in" /\ t[i].k \in {"Sign in", "sign in", "Sign In"}

\* ArticleScraper.is_paywall_page
ETI_is_paywall_page(soup) ==
    LET nodes == Preorder(soup)
    IN  IF \E i \in 1..Len(ETI_paywall_indicators) :
              First(SelectSeq(nodes, LAMBDA e : ClassContains(e, ETI_paywall_indicators[i]))) # <<>>
        THEN TRUE
        ELSE IF \E i \in 1..Len(ETI_paywall_texts) :
                   First(SelectSeq(nodes, LAMBDA e : FindPhrase(ETI_paywall_texts[i], e.text) # 0)) # <<>>
        THEN TRUE
        ELSE IF First(SelectSeq(nodes, LAMBDA e : InStr(<<"paywall">>, Lower(e.id)))) # <<>>
        THEN TRUE
        ELSE IF First(SelectSeq(nodes, LAMBDA e : e.tag = "button"
                        /\ (LowerTextHas(e.text, "subscribe") \/ LowerTextHas(e.text, "sign in")))) # <<>>
        THEN TRUE
        ELSE FALSE

\* unwanted_classes of _process_content_element.  The 53 'newsletter-...'
\* entries each contain 'newsletter', 'advertisement-container' contains
\* 'advertisement': under substring matching they remove nothing more.
ETI_unwanted_classes ==
    << <<"flt">>, <<"ads">>, <<"footer">>, <<"disclaimer">>, <<"prime">>, <<"paywall">>,
       <<"social-share">>, <<"related-articles">>, <<"recommended">>, <<"sidebar">>,
       <<"advertisement">>, <<"ad-container">>, <<"ad-wrapper">>,
       <<"social-media">>, <<"share-buttons">>, <<"comments">>, <<"comment-section">>,
       <<"newsletter">>, <<"subscription">>, <<"subscribe">>, <<"sign-up">>, <<"signup">>,
       <<"cookie-notice">>, <<"cookie-banner">>, <<"cookie-policy">>, <<"cookie-consent">> >>

\* unwanted_ids of _process_content_element
ETI_unwanted_ids ==
    << <<"comments">>, <<"related-articles">>, <<"recommended">>, <<"sidebar">>,
       <<"advertisement">> >>

ETI_removed_tags == {"script", "style", "noscript", "iframe", "form"}

\* A node the class loop or the tag loop of _process_content_element decomposes.
ETI_Unwanted(e) ==
    \/ \E i \in 1..Len(ETI_unwanted_classes) : ClassContains(e, ETI_unwanted_classes[i])
    \/ e.tag \in ETI_removed_tags

RECURSIVE ETI_RemoveIds(_, _)
\* for unwanted_id in unwanted_ids: elem = copy.find(id=unwanted_id); if elem: elem.decompose()
\* on the copy `tree` (a sequence of 0 or 1 elements).
ETI_RemoveIds(tree, ids) ==
    IF ids = <<>> \/ tree = <<>> THEN tree
    ELSE LET root == tree[1]
             hit == First(SelectSeq(root.kids, LAMBDA k : k.id = Head(ids)))
         IN  IF root.id = Head(ids) THEN <<>>
             ELSE IF hit = <<>> THEN ETI_RemoveIds(tree, Tail(ids))
             ELSE LET first == CHOOSE j \in 1..Len(root.kids) :
                                   /\ root.kids[j].id = Head(ids)
                                   /\ \A m \in 1..(j - 1) : root.kids[m].id # Head(ids)
                      kept == SubSeq(root.kids, 1, first - 1)
                                \o SubSeq(root.kids, first + 1, Len(root.kids))
                  IN  ETI_RemoveIds(<<[root EXCEPT !.kids = kept]>>, Tail(ids))

\* The copy of the element after the three removal loops.
ETI_Pruned(element) ==
    LET afterClassTag ==
            IF ETI_Unwanted(element) THEN <<>>
            ELSE <<[element EXCEPT !.kids = SelectSeq(element.kids, LAMBDA k : ~ETI_Unwanted(k))]>>
    IN  ETI_RemoveIds(afterClassTag, ETI_unwanted_ids)

\* The cleaned text _process_content_element computes before its length test.
ETI_CleanedText(element) ==
    LET tree == ETI_Pruned(element)
        content == IF tree = <<>> THEN <<>> ELSE get_text_sep_strip(tree[1])
    IN  clean_text(RemoveBoilerplate(content, ETI_boilerplate_text))

\* Mutant: the acceptance test written with >= instead of >.
ETI_Substantial_ge(content) == TextLen(content) >= MinContentLength

\* The acceptance test closing _process_content_element.
ETI_Substantial(content) == TextLen(content) > MinContentLength

\* ArticleScraper._process_content_element: the cleaned text, or None.
ETI_process_content_element(element) ==
    IF ETI_Substantial(ETI_CleanedText(element)) THEN ETI_CleanedText(element) ELSE None

\* content_selectors of extract_article_content (all of type 'class')
ETI_content_selectors ==
    << cArtText, cArticleWrap, cArticleContent, cStoryDetails, cArticle_Content,
       cArticleText, cStoryContent, cStoryBody, cArticleBody, cArticle_Body >>

\* id_selectors of extract_article_content
ETI_id_selectors == << cArticleBody, cArticle_Body, cStoryContent, cStoryBody >>

\* The (None, None) result.
NoContent == [content |-> None, method |-> None]

\* Mutant: the article step reports its content without a method tag.
ETI_ArticleStep_untagged(soup) ==
    LET article_tag == First(SelectSeq(Preorder(soup), LAMBDA e : e.tag = "article"))
    IN  IF article_tag # <<>> /\ ETI_process_content_element(article_tag[1]) # None
        THEN [content |-> ETI_process_content_element(article_tag[1]),
              method |-> None]
        ELSE NoContent

\* Step 1: soup.find('article') through _process_content_element.
ETI_ArticleStep(soup) ==
    LET article_tag == First(SelectSeq(Preorder(soup), LAMBDA e : e.tag = "article"))
    IN  IF article_tag # <<>> /\ ETI_process_content_element(article_tag[1]) # None
        THEN [content |-> ETI_process_content_element(article_tag[1]),
              method |-> <<"article tag">>]
        ELSE NoContent

\* One class selector: soup.find(class_=name) through _process_content_element.
ETI_ClassStep(soup, name) ==
    LET element == First(SelectSeq(Preorder(soup), LAMBDA e : HasClass(e, name)))
    IN  IF element # <<>> /\ ETI_process_content_element(element[1]) # None
        THEN [content |-> ETI_process_content_element(element[1]),
              method |-> <<"class: ">> \o name]
        ELSE NoContent

\* Mutant: the id step labels its content as a class match.
ETI_IdStep_classTag(soup, id_name) ==
    LET element == First(SelectSeq(Preorder(soup), LAMBDA e : e.id = id_name))
    IN  IF element # <<>> /\ ETI_process_content_element(element[1]) # None
        THEN [content |-> ETI_process_content_element(element[1]),
              method |-> <<"class: ">> \o id_name]
        ELSE NoContent

\* One id selector: soup.find(id=id_name) through _process_content_element.
ETI_IdStep(soup, id_name) ==
    LET element == First(SelectSeq(Preorder(soup), LAMBDA e : e.id = id_name))
    IN  IF element # <<>> /\ ETI_process_content_element(element[1]) # None
        THEN [content |-> ETI_process_content_element(element[1]),
              method |-> <<"id: ">> \o id_name]
        ELSE NoContent

\* The joined paragraph text of the last step.
ETI_ParagraphText(soup) ==
    LET main_content ==
            First(SelectSeq(Preorder(soup), LAMBDA e : e.tag = "div"
                    /\ (ClassContains(e, <<"article">>) \/ ClassContains(e, <<"story">>)
                        \/ ClassContains(e, <<"content">>))))
        paragraphs == IF main_content = <<>> THEN <<>>
                      ELSE SelectSeq(main_content[1].kids, LAMBDA k : k.tag = "p")
    IN  JoinSpace(StrippedNonEmpty([i \in 1..Len(paragraphs) |-> get_text(paragraphs[i])]))

\* Step 4: paragraphs within the main content area.
ETI_ParagraphStep(soup) ==
    IF ETI_ParagraphText(soup) # <<>> /\ TextLen(ETI_ParagraphText(soup)) > MinContentLength
    THEN [content |-> ETI_ParagraphText(soup), method |-> <<"paragraphs in main content">>]
    ELSE NoContent

RECURSIVE ETI_ClassLoop(_, _)
\* for selector in content_selectors: ... return at the first content
ETI_ClassLoop(soup, selectors) ==
    IF selectors = <<>> THEN NoContent
    ELSE LET found == ETI_ClassStep(soup, Head(selectors))
         IN  IF found # NoContent THEN found
             ELSE ETI_ClassLoop(soup, Tail(selectors))

RECURSIVE ETI_IdLoop(_, _)
\* for id_name in id_selectors: ... return at the first content
ETI_IdLoop(soup, ids) ==
    IF ids = <<>> THEN NoContent
    ELSE LET found == ETI_IdStep(soup, Head(ids))
         IN  IF found # NoContent THEN found
             ELSE ETI_IdLoop(soup, Tail(ids))

\* Mutant: the id selectors are tried before the class selectors.
ETI_extract_ids_first(soup) ==
    IF ETI_ArticleStep(soup) # NoContent THEN ETI_ArticleStep(soup)
    ELSE IF ETI_IdLoop(soup, ETI_id_selectors) # NoContent
         THEN ETI_IdLoop(soup, ETI_id_selectors)
    ELSE IF ETI_ClassLoop(soup, ETI_content_selectors) # NoContent
         THEN ETI_ClassLoop(soup, ETI_content_selectors)
    ELSE ETI_ParagraphStep(soup)

\* ArticleScraper.extract_article_content
ETI_extract_article_content(soup) ==
    LET byArticle == ETI_ArticleStep(soup)
        byClass == ETI_ClassLoop(soup, ETI_content_selectors)
        byId == ETI_IdLoop(soup, ETI_id_selectors)
    IN  IF byArticle # NoContent THEN byArticle
        ELSE IF byClass # NoContent THEN byClass
        ELSE IF byId # NoContent THEN byId
        ELSE ETI_ParagraphStep(soup)

\* Mutant: _process_content_element decomposes in the parsed page itself.
ETI_Locate_inplace(soup) ==
    [result |-> ETI_extract_article_content(soup),
     soup |-> [i \in 1..Len(soup) |->
                 [soup[i] EXCEPT !.kids = SelectSeq(@, LAMBDA k : ~ETI_Unwanted(k))]]]

\* extract_article_content with the parsed page as the call leaves it:
\* every decompose() of _process_content_element acts on element_copy, a
\* new parse of str(element), and the page keeps all its elements.
ETI_Locate(soup) ==
    [result |-> ETI_extract_article_content(soup), soup |-> soup]

\* -------------------------------------------------- ADE: articles_data_ET.py
\* self.boilerplate_text (the same list as ETI)
ADE_boilerplate_text == ETI_boilerplate_text

\* paywall_indicators of is_paywall_page
ADE_paywall_indicators == << cArticleBlocker, cPaywallBox, cPrimePaywall, cSubscribeBtn >>

\* soup.find(class_=[...]) or soup.find('article')
ADE_ArticleContainer(soup) ==
    LET byClass == First(SelectSeq(Preorder(soup), LAMBDA e :
                        HasClass(e, cArtText) \/ HasClass(e, cArticleText)
                        \/ HasClass(e, cArticle_Content)))
    IN  IF byClass # <<>> THEN byClass
        ELSE First(SelectSeq(Preorder(soup), LAMBDA e : e.tag = "article"))

\* not (article_content and len(article_content.get_text().strip()) > 200)
ADE_LengthFallback(soup) ==
    ~ ( /\ ADE_ArticleContainer(soup) # <<>>
        /\ TextLen(Strip(get_text(ADE_ArticleContainer(soup)[1]))) > MinContentLength )

\* Mutant: the length fallback is consulted before the indicator classes.
ADE_is_paywall_page_length_first(soup) ==
    IF ~ADE_LengthFallback(soup) THEN FALSE
    ELSE \E i \in 1..Len(ADE_paywall_indicators) :
            First(SelectSeq(Preorder(soup), LAMBDA e : HasClass(e, ADE_paywall_indicators[i]))) # <<>>

\* ArticleScraper.is_paywall_page
ADE_is_paywall_page(soup) ==
    IF \E i \in 1..Len(ADE_paywall_indicators) :
           First(SelectSeq(Preorder(soup), LAMBDA e : HasClass(e, ADE_paywall_indicators[i]))) # <<>>
    THEN TRUE
    ELSE ADE_LengthFallback(soup)

\* The class list of the removal test in _process_content_element
\* (`c in [...]`: whole-token membership).
ADE_unwanted_classes ==
    { <<"flt">>, <<"ads">>, <<"footer">>, <<"disclaimer">>, <<"prime">>, <<"paywall">> }

\* A descendant _process_content_element decomposes.
ADE_Unwanted(e) ==
    /\ e.tag \in {"script", "style", "noscript", "div"}
    /\ \E i \in 1..Len(e.cls) : e.cls[i] \in ADE_unwanted_classes

\* ArticleScraper._process_content_element
ADE_process_content_element(element) ==
    LET pruned == [element EXCEPT !.kids = SelectSeq(element.kids, LAMBDA k : ~ADE_Unwanted(k))]
        content == clean_text(RemoveBoilerplate(get_text_sep_strip(pruned), ADE_boilerplate_text))
    IN  IF TextLen(content) > MinContentLength THEN content ELSE None

\* content_selectors of extract_article_content
ADE_content_selectors == << cArtText, cArticleWrap, cArticleContent, cStoryDetails >>

\* One class selector of the loop.
ADE_ClassStep(soup, name) ==
    LET element == First(SelectSeq(Preorder(soup), LAMBDA e : HasClass(e, name)))
    IN  IF element # <<>> /\ ADE_process_content_element(element[1]) # None
        THEN [content |-> ADE_process_content_element(element[1]),
              method |-> <<"class: ">> \o name]
        ELSE NoContent

\* The parsed page after _process_content_element ran on the element the
\* selector finds: unwanted.decompose() works on the page itself, not a copy.
ADE_Decomposed(soup, type, name) ==
    IF FoundTop(soup, type, name) = 0 THEN soup
    ELSE [soup EXCEPT ![FoundTop(soup, type, name)].kids =
              SelectSeq(@, LAMBDA k : ~ADE_Unwanted(k))]

RECURSIVE ADE_ClassLoop(_, _)
\* for selector in content_selectors: ... return at the first content.
\* The value is the result together with the page as the loop leaves it.
ADE_ClassLoop(soup, selectors) ==
    IF selectors = <<>> THEN [result |-> NoContent, soup |-> soup]
    ELSE IF ADE_ClassStep(soup, Head(selectors)) # NoContent
         THEN [result |-> ADE_ClassStep(soup, Head(selectors)),
               soup |-> ADE_Decomposed(soup, "class", Head(selectors))]
         ELSE ADE_ClassLoop(ADE_Decomposed(soup, "class", Head(selectors)), Tail(selectors))

\* One call of extract_article_content: its result and the page afterwards.
ADE_Locate(soup) ==
    LET article_tag == First(SelectSeq(Preorder(soup), LAMBDA e : e.tag = "article"))
    IN  IF article_tag # <<>> /\ ADE_process_content_element(article_tag[1]) # None
        THEN [result |-> [content |-> ADE_process_content_element(article_tag[1]),
                          method |-> <<"article tag">>],
              soup |-> ADE_Decomposed(soup, "tag", <<"article">>)]
        ELSE ADE_ClassLoop(ADE_Decomposed(soup, "tag", <<"article">>), ADE_content_selectors)

\* ArticleScraper.extract_article_content
ADE_extract_article_content(soup) == ADE_Locate(soup).result

\* ----------------------------------------------- FNA: fetch_news_articles.py
\* self.boilerplate_text
FNA_boilerplate_text ==
    << "Download The News App",
       "Subscribe to our WhatsApp channel",
       "Disclaimer Statement:",
       "Read More News on",
       "Prime Exclusives",
       "View all Stories" >>

\* paywall_indicators.get(source.lower(), ['paywall', 'subscription'])
FNA_paywall_indicators(source) ==
    CASE source = "economictimes" ->
            << cArticleBlocker, cPaywallBox, cPrimePaywall, cSubscribeBtn >>
      [] source = "livemint" ->
            << cPaywall, <<"subscription", "-", "content">>, <<"paywall", "-container">> >>
      [] OTHER -> << cPaywall, <<"subscription">> >>

\* NewsArticleScraper.is_paywall_page
FNA_is_paywall_page(soup, source) ==
    IF \E i \in 1..Len(FNA_paywall_indicators(source)) :
           First(SelectSeq(Preorder(soup), LAMBDA e : HasClass(e, FNA_paywall_indicators(source)[i]))) # <<>>
    THEN TRUE
    ELSE LET byClass == First(SelectSeq(Preorder(soup), LAMBDA e :
                             HasClass(e, cArtText) \/ HasClass(e, cArticleText)))
             article_content == IF byClass # <<>> THEN byClass
                                ELSE First(SelectSeq(Preorder(soup), LAMBDA e : e.tag = "article"))
         IN  ~ ( /\ article_content # <<>>
                 /\ TextLen(Strip(get_text(article_content[1]))) > MinContentLength )

\* content_selectors.get(source.lower(), default)
FNA_content_selectors(source) ==
    CASE source = "economictimes" ->
            << [type |-> "tag", name |-> <<"article">>],
               [type |-> "class", name |-> cArtText],
               [type |-> "class", name |-> cArticleWrap] >>
      [] source = "livemint" ->
            << [type |-> "class", name |-> cMainArea],
               [type |-> "class", name |-> cArticleBody],
               [type |-> "tag", name |-> <<"article">>] >>
      [] OTHER ->
            << [type |-> "tag", name |-> <<"article">>],
               [type |-> "class", name |-> cArticleContent],
               [type |-> "class", name |-> cStoryContent] >>

\* A descendant the loop body of extract_article_content decomposes.
FNA_Unwanted(e) ==
    /\ e.tag \in {"script", "style", "noscript", "div"}
    /\ \E i \in 1..Len(e.cls) : e.cls[i] \in { <<"ads">>, <<"footer">>, <<"paywall">> }

\* The body of the selector loop for one selector.
FNA_SelectorStep(soup, selector) ==
    LET element == First(SelectSeq(Preorder(soup),
                                   LAMBDA e : Selects(e, selector.type, selector.name)))
        pruned == [element[1] EXCEPT !.kids = SelectSeq(element[1].kids, LAMBDA k : ~FNA_Unwanted(k))]
        content == clean_text(RemoveBoilerplate(get_text_sep_strip(pruned), FNA_boilerplate_text))
    IN  IF element # <<>> /\ TextLen(content) > MinContentLength
        THEN [content |-> content, method |-> <<selector.type, ": ">> \o selector.name]
        ELSE NoContent

\* The parsed page after the removal loop ran on the element the selector
\* finds (decompose works on the page itself).
FNA_Decomposed(soup, selector) ==
    IF FoundTop(soup, selector.type, selector.name) = 0 THEN soup
    ELSE [soup EXCEPT ![FoundTop(soup, selector.type, selector.name)].kids =
              SelectSeq(@, LAMBDA k : ~FNA_Unwanted(k))]

RECURSIVE FNA_SelectorLoop(_, _)
\* for selector in selectors: ... return at the first content.
\* The value is the result together with the page as the loop leaves it.
FNA_SelectorLoop(soup, selectors) ==
    IF selectors = <<>> THEN [result |-> NoContent, soup |-> soup]
    ELSE IF FNA_SelectorStep(soup, Head(selectors)) # NoContent
         THEN [result |-> FNA_SelectorStep(soup, Head(selectors)),
               soup |-> FNA_Decomposed(soup, Head(selectors))]
         ELSE FNA_SelectorLoop(FNA_Decomposed(soup, Head(selectors)), Tail(selectors))

\* One call of extract_article_content: its result and the page afterwards.
FNA_Locate(soup, source) == FNA_SelectorLoop(soup, FNA_content_selectors(source))

\* NewsArticleScraper.extract_article_content
FNA_extract_article_content(soup, source) == FNA_Locate(soup, source).result

\* ------------------------------------------------------- one article attempt
\* A missing CSV cell as pandas reads it (float nan).
NaN == <<"#nan">>
\* The placeholder the URL scraper writes for a row without a link.
URL_NOT_AVAILABLE == <<"URL not available">>

\* pd.isna(url)
isna(url) == url = NaN
\* str(url)
StrUrl(url) == IF url = NaN THEN <<"nan">> ELSE url
\* str(result.error)
StrError(error) == IF error = None THEN <<"None">> ELSE error

\* The dataclass ArticleData (headline and published_date are copied
\* through unchanged by every caller and are left out).
ArticleData(url, full_content, extraction_method, error) ==
    [url |-> url, full_content |-> full_content,
     extraction_method |-> extraction_method, error |-> error]

\* What the network answers to a GET: a page, a transport failure or a
\* non-2xx status (RequestException), or a page on which parsing or
\* extraction raises some other exception.
Ok(soup) == [kind |-> "ok", soup |-> soup, msg |-> <<>>]
RequestException(msg) == [kind |-> "RequestException", soup |-> <<>>, msg |-> msg]
OtherException(msg) == [kind |-> "Exception", soup |-> <<>>, msg |-> msg]

\* requests.get(url, ...) followed by response.raise_for_status(): a url
\* without a scheme raises MissingSchema (a RequestException) before any
\* request is sent; sent tells whether a request went out.
requests_get(url, resp) ==
    IF Len(StrUrl(url)) > 0 /\ Head(StrUrl(url)) = "http://"
    THEN [kind |-> resp.kind, soup |-> resp.soup, msg |-> resp.msg, sent |-> TRUE]
    ELSE [kind |-> "RequestException", soup |-> <<>>,
          msg |-> <<"Invalid URL '">> \o StrUrl(url) \o <<"': No scheme supplied">>,
          sent |-> FALSE]

\* The outcome of a try body: the record returned (exc = "") or the
\* exception raised, the stages that ran, and whether a request was sent.
Returned(rec, stages, sent) ==
    [rec |-> rec, exc |-> "", msg |-> <<>>, stages |-> stages, sent |-> sent]
Raised(exc, msg, stages, sent) ==
    [rec |-> ArticleData(None, None, None, None), exc |-> exc, msg |-> msg,
     stages |-> stages, sent |-> sent]

\* Mutant: only `except requests.exceptions.RequestException` is written.
ExceptClauses_RequestOnly(url, body) ==
    IF body.exc = "RequestException"
    THEN Returned(ArticleData(url, None, None, <<"Request error: ">> \o body.msg),
                  body.stages, body.sent)
    ELSE body

\* The two except clauses shared by every process_single_article.
ExceptClauses(url, body) ==
    IF body.exc = "" THEN body
    ELSE IF body.exc = "RequestException"
         THEN Returned(ArticleData(url, None, None, <<"Request error: ">> \o body.msg),
                       body.stages, body.sent)
         ELSE Returned(ArticleData(url, None, None, <<"Unexpected error: ">> \o body.msg),
                       body.stages, body.sent)

\* Mutant: the content locator runs before the paywall classifier.
ETI_FetchExtractClassify(url, resp) ==
    LET response == requests_get(url, resp)
        found == ETI_extract_article_content(response.soup)
    IN  IF response.kind # "ok"
        THEN Raised(response.kind, response.msg, <<"fetch">>, response.sent)
        ELSE IF found.content # <<>>
        THEN Returned(ArticleData(url, found.content, found.method, None),
                      <<"fetch", "locate">>, TRUE)
        ELSE IF ETI_is_paywall_page(response.soup)
        THEN Returned(ArticleData(url, None, None, <<"Paywall", " detected">>),
                      <<"fetch", "locate", "classify">>, TRUE)
        ELSE Returned(ArticleData(url, None, None, <<"No content found">>),
                      <<"fetch", "locate", "classify">>, TRUE)

\* The statements after the url test in the try body of
\* ArticleScraper.process_single_article (ET_news_integrated.py).
ETI_FetchClassifyExtract(url, resp) ==
    LET response == requests_get(url, resp)
        found == ETI_extract_article_content(response.soup)
    IN  IF response.kind # "ok"
        THEN Raised(response.kind, response.msg, <<"fetch">>, response.sent)
        ELSE IF ETI_is_paywall_page(response.soup)
        THEN Returned(ArticleData(url, None, None, <<"Paywall", " detected">>),
                      <<"fetch", "classify">>, TRUE)
        ELSE IF found.content # <<>>
        THEN Returned(ArticleData(url, found.content, found.method, None),
                      <<"fetch", "classify", "locate">>, TRUE)
        ELSE Returned(ArticleData(url, None, None, <<"No content found">>),
                      <<"fetch", "classify", "locate">>, TRUE)

\* Mutant: the invalid-url record is built without its error argument.
ETI_process_single_article_bare(url, resp) ==
    ExceptClauses(url,
        IF isna(url) \/ url = URL_NOT_AVAILABLE
        THEN Returned(ArticleData(url, None, None, None), <<>>, FALSE)
        ELSE ETI_FetchClassifyExtract(url, resp))

\* ArticleScraper.process_single_article (ET_news_integrated.py)
ETI_process_single_article(url, resp) ==
    ExceptClauses(url,
        IF isna(url) \/ url = URL_NOT_AVAILABLE
        THEN Returned(ArticleData(url, None, None, <<"Invalid URL">>), <<>>, FALSE)
        ELSE ETI_FetchClassifyExtract(url, resp))

\* ArticleScraper.process_single_article (articles_data_ET.py)
ADE_process_single_article(url, resp) ==
    ExceptClauses(url,
        IF isna(url) \/ url = URL_NOT_AVAILABLE
        THEN Returned(ArticleData(url, None, None, <<"Invalid URL">>), <<>>, FALSE)
        ELSE LET response == requests_get(url, resp)
                 found == ADE_extract_article_content(response.soup)
             IN  IF response.kind # "ok"
                 THEN Raised(response.kind, response.msg, <<"fetch">>, response.sent)
                 ELSE IF ADE_is_paywall_page(response.soup)
                 THEN Returned(ArticleData(url, None, None, <<"Paywall", " detected">>),
                               <<"fetch", "classify">>, TRUE)
                 ELSE IF found.content # <<>>
                 THEN Returned(ArticleData(url, found.content, found.method, None),
                               <<"fetch", "classify", "locate">>, TRUE)
                 ELSE Returned(ArticleData(url, None, None, <<"No content found">>),
                               <<"fetch", "classify", "locate">>, TRUE))

\* NewsArticleScraper.process_single_article (fetch_news_articles.py):
\* no url test precedes the request.
FNA_process_single_article(url, resp, source) ==
    ExceptClauses(url,
        LET response == requests_get(url, resp)
            found == FNA_extract_article_content(response.soup, source)
        IN  IF response.kind # "ok"
            THEN Raised(response.kind, response.msg, <<"fetch">>, response.sent)
            ELSE IF FNA_is_paywall_page(response.soup, source)
            THEN Returned(ArticleData(url, None, None, <<"Paywall", " detected">>),
                          <<"fetch", "classify">>, TRUE)
            ELSE IF found.content # <<>>
            THEN Returned(ArticleData(url, found.content, found.method, None),
                          <<"fetch", "classify", "locate">>, TRUE)
            ELSE Returned(ArticleData(url, None, None, <<"No content found">>),
                          <<"fetch", "classify", "locate">>, TRUE))

\* The scraper's process_single_article of the running script.
process_single_article(script, source, url, resp) ==
    CASE script = "ETI" -> ETI_process_single_article(url, resp)
      [] script = "ADE" -> ADE_process_single_article(url, resp)
      [] OTHER -> FNA_process_single_article(url, resp, source)

\* The if / elif / else that files a result: the name of the list it goes to.
Route(result) ==
    IF result.full_content # <<>> THEN "ok"
    ELSE IF InStr(<<"Paywall">>, StrError(result.error)) THEN "paywall"
    ELSE "failed"

\* ------------------------------------------------------------------- state
VARIABLES
    script,        \* which script runs: "ETI", "ADE" or "FNA"
    source,        \* the source argument of the FNA scraper
    rows,          \* the article_url column of the input CSV
    pc,            \* position of the run
    idx,           \* index of the next item of the running loop
    article_data,  \* self.article_data
    failed_urls,   \* self.failed_urls
    paywall_urls,  \* self.paywall_urls
    recheck,       \* the three local lists of recheck_paywall_articles
    json_recheck,  \* the three local lists of recheck_paywall_articles_from_json
    files,         \* the JSON files of the output directory
    events,        \* what has happened so far: calls, requests sent, sleeps
    attempt,       \* the last process_single_article call: its input and outcome
    doc,           \* the page a classifier or locator is applied to
    out            \* what it returned

vars == << script, source, rows, pc, idx, article_data, failed_urls, paywall_urls,
           recheck, json_recheck, files, events, attempt, doc, out >>

runVars == << script, source, rows, pc, idx, article_data, failed_urls, paywall_urls,
              recheck, json_recheck, files, events, attempt >>

\* ------------------------------------------------------------------- pages
\* Texts around the threshold.
BodyText(n) == << TextNode(<<W(n)>>) >>
\* Two paragraphs: joined with a space by separator=' ' and by ' '.join.
BodyParas(a, b) == << Leaf("p", <<>>, <<>>, <<W(a)>>), Leaf("p", <<>>, <<>>, <<W(b)>>) >>
\* Article text followed by an advertisement block.
BodyNoisy(n, m) == << TextNode(<<W(n)>>), Leaf("div", <<cAds>>, <<>>, <<W(m)>>) >>
\* Article text followed by a boilerplate call-to-action and more text.
BodyBoiler(n) ==
    << TextNode(<< W(n), S(1), Phrase("Download The Economic Times News App"), S(1), W(40) >>) >>
\* Article text with newlines and indentation between two halves.
BodySpaced(a, b) == << TextNode(<< S(2), W(a), S(3), W(b), S(1) >>) >>

\* Article text followed by a parenthesised WhatsApp call-to-action.
BodyOverlap(n) ==
    << TextNode(<< W(n), S(1), Paren,
                   Phrase("You can now subscribe to our Economic Times WhatsApp channel"),
                   S(1), W(40) >>) >>
\* Two paragraphs, the second ending in a boilerplate link line set off by
\* a line break and indentation.
BodyParasBoiler(a, b) ==
    << Leaf("p", <<>>, <<>>, <<W(a)>>),
       Leaf("p", <<>>, <<>>, << W(b), S(3), Phrase("Read More News on"), S(1), W(10) >>) >>
\* The text of a newsletter sign-up form.
FormText == [k |-> "#form text", n |-> 30]
\* Article text followed by a sign-up form without class or id.
BodyForm(n) == << TextNode(<<W(n)>>), Leaf("form", <<>>, <<>>, <<FormText>>) >>
\* A teaser block that is both a content class and an advertisement,
\* followed by the story text.
BodyTeaser(n) == << Leaf("div", <<cArtText, cAds>>, <<>>, <<W(50)>>), TextNode(<<W(n)>>) >>

Bodies ==
    { BodyText(MinContentLength), BodyText(MinContentLength + 1),
      BodyParas(100, MinContentLength - 100),
      BodyNoisy(150, 60),
      BodyBoiler(MinContentLength),
      BodySpaced(100, MinContentLength - 101) }

\* Elements a page may hold at its top level.
Elements ==
    { Container("article", <<>>, <<>>, b) : b \in Bodies }
    \cup { Container("div", <<cArtText>>, <<>>, b) : b \in Bodies }
    \cup { Container("div", <<>>, cStoryBody, b) : b \in Bodies }
    \cup { Container("div", <<cMainContent>>, <<>>, b) : b \in Bodies }
    \cup { Leaf("div", <<cPaywallBox>>, <<>>, <<W(20)>>),
           Leaf("button", <<>>, <<>>, <<Phrase("Subscribe")>>),
           Leaf("p", <<>>, <<>>, <<Phrase("Subscribe to read")>>) }
    \cup { Container("article", <<>>, <<>>, BodyOverlap(MinContentLength + 1)),
           Container("article", <<>>, <<>>, BodyForm(MinContentLength + 1)),
           Container("div", <<cMainContent>>, <<>>, BodyParasBoiler(150, 60)),
           Container("div", <<cStoryDetails>>, <<>>, BodyTeaser(MinContentLength + 1)),
           Leaf("div", <<>>, cSubscribeBtn, <<W(20)>>) }

\* The pages the classifiers and locators are applied to.
Docs == UNION { [1..n -> Elements] : n \in 0..MaxElems }

\* ------------------------------------------------------------ run inputs
UrlA == <<"http://", "x/a">>
UrlB == <<"http://", "x/", "Paywall", "-b">>

\* The urls a row of the input CSV may hold.
UrlPool == {UrlA, UrlB, NaN, URL_NOT_AVAILABLE}

\* Input batches: 1..MaxRows rows with distinct urls.
InputRows ==
    { r \in UNION { [1..n -> UrlPool] : n \in 1..MaxRows } :
        \A i, j \in 1..Len(r) : i # j => r[i] # r[j] }

Art(body) == Container("article", <<>>, <<>>, body)
\* An open article, a page with a paywall box, an article of exactly the
\* threshold length, and a short article followed by an advertisement.
PageGood == << Art(BodyText(MinContentLength + 1)) >>
PageMarker == << Leaf("div", <<cPaywallBox>>, <<>>, <<W(20)>>), Art(BodyText(MinContentLength + 1)) >>
PageThin == << Art(BodyText(MinContentLength)) >>
PageNoisy == << Art(BodyNoisy(150, 60)) >>
\* An article whose text runs into a call-to-action phrase.
PageBoiler == << Art(BodyBoiler(MinContentLength + 1)) >>
Pages == {PageGood, PageMarker, PageThin, PageNoisy, PageBoiler}

\* No request goes out for a url without a scheme.
NoResponse == RequestException(<<>>)

\* What the network may answer to a GET of url.
Responses(url) ==
    IF Len(StrUrl(url)) > 0 /\ Head(StrUrl(url)) = "http://"
    THEN { Ok(d) : d \in Pages }
         \cup { RequestException(<<"404 Client Error: Not Found for url: ">> \o url),
                OtherException(<<"maximum recursion depth exceeded">>) }
    ELSE { NoResponse }

EmptyLists == [ok |-> <<>>, paywall |-> <<>>, failed |-> <<>>]
\* A file is <<>> when absent and <<content>> when written.
NoFiles == [paywall_urls |-> <<>>, failed_urls |-> <<>>,
            still_paywalled |-> <<>>, recheck_failed |-> <<>>]
NoAttempt == [phase |-> "none", url |-> <<>>, resp |-> NoResponse,
              out |-> Returned(ArticleData(None, None, None, None), <<>>, FALSE)]

Event(ev, url) == [ev |-> ev, url |-> url]

\* The events of one process_single_article call.
CallEvents(url, o) ==
    <<Event("call", url)>> \o (IF o.sent THEN <<Event("http", url)>> ELSE <<>>)

\* Mutant: a paywalled result is appended to the failures as well.
Filed_twice(lists, result) ==
    CASE Route(result) = "ok" -> [lists EXCEPT !.ok = Append(@, result)]
      [] Route(result) = "paywall" -> [lists EXCEPT !.paywall = Append(@, result),
                                                    !.failed = Append(@, result)]
      [] OTHER -> [lists EXCEPT !.failed = Append(@, result)]

\* lists with result appended to the list Route names.
Filed(lists, result) ==
    CASE Route(result) = "ok" -> [lists EXCEPT !.ok = Append(@, result)]
      [] Route(result) = "paywall" -> [lists EXCEPT !.paywall = Append(@, result)]
      [] OTHER -> [lists EXCEPT !.failed = Append(@, result)]

\* The JSON part of save_results: a list is written only when non-empty.
save_results(fs, failed, paywall) ==
    [fs EXCEPT !.failed_urls = IF failed # <<>> THEN <<failed>> ELSE @,
               !.paywall_urls = IF paywall # <<>> THEN <<paywall>> ELSE @]

\* ------------------------------------------- applying one function to a page
\* out records the calls made on the page: the function, the scraper, the
\* value of the first call, the parsed page as the calls left it, and the
\* value of a second call (made on a fresh parse of the page or on the
\* same parsed page).
NoOut == [fn |-> "none", script |-> "none", source |-> "none",
          paywall |-> FALSE, result |-> NoContent,
          soup |-> <<>>, calls |-> 0, fresh |-> FALSE, second |-> NoContent]

Sources == {"economictimes", "livemint"}

InitDoc ==
    /\ doc \in Docs
    /\ out = NoOut
    /\ script = "none" /\ source = "none" /\ rows = <<>> /\ pc = "none" /\ idx = 0
    /\ article_data = <<>> /\ failed_urls = <<>> /\ paywall_urls = <<>>
    /\ recheck = EmptyLists /\ json_recheck = EmptyLists /\ files = NoFiles
    /\ events = <<>> /\ attempt = NoAttempt

\* Call is_paywall_page of one script on the page.
ClassifyPage ==
    /\ out = NoOut
    /\ \E sc \in {"ETI", "ADE", "FNA"} : \E src \in Sources :
         /\ sc # "FNA" => src = "economictimes"
         /\ out' = [fn |-> "is_paywall_page", script |-> sc, source |-> src,
                    paywall |-> CASE sc = "ETI" -> ETI_is_paywall_page(doc)
                                  [] sc = "ADE" -> ADE_is_paywall_page(doc)
                                  [] OTHER -> FNA_is_paywall_page(doc, src),
                    result |-> NoContent,
                    soup |-> doc, calls |-> 1, fresh |-> FALSE, second |-> NoContent]
    /\ UNCHANGED << doc, runVars >>

\* Call extract_article_content of one script on the page.
LocateContent ==
    /\ out = NoOut
    /\ \E sc \in {"ETI", "ADE", "FNA"} : \E src \in Sources :
         /\ sc # "FNA" => src = "economictimes"
         /\ out' = [fn |-> "extract_article_content", script |-> sc, source |-> src,
                    paywall |-> FALSE,
                    result |-> CASE sc = "ETI" -> ETI_extract_article_content(doc)
                                 [] sc = "ADE" -> ADE_extract_article_content(doc)
                                 [] OTHER -> FNA_extract_article_content(doc, src),
                    soup |-> CASE sc = "ETI" -> ETI_Locate(doc).soup
                               [] sc = "ADE" -> ADE_Locate(doc).soup
                               [] OTHER -> FNA_Locate(doc, src).soup,
                    calls |-> 1, fresh |-> FALSE, second |-> NoContent]
    /\ UNCHANGED << doc, runVars >>

\* Call extract_article_content a second time, on a fresh parse of the
\* same HTML or on the parsed page the first call worked on.
LocateAgain ==
    /\ out.fn = "extract_article_content" /\ out.calls = 1
    /\ \E fresh \in BOOLEAN : \E input \in {IF fresh THEN doc ELSE out.soup} :
         out' = [out EXCEPT
                   !.calls = 2,
                   !.fresh = fresh,
                   !.second = CASE out.script = "ETI" -> ETI_extract_article_content(input)
                                [] out.script = "ADE" -> ADE_extract_article_content(input)
                                [] OTHER -> FNA_extract_article_content(input, out.source),
                   !.soup = CASE out.script = "ETI" -> ETI_Locate(input).soup
                              [] out.script = "ADE" -> ADE_Locate(input).soup
                              [] OTHER -> FNA_Locate(input, out.source).soup]
    /\ UNCHANGED << doc, runVars >>

NextDoc == ClassifyPage \/ LocateContent \/ LocateAgain

SpecDoc == InitDoc /\ [][NextDoc]_vars

\* ------------------------------------------------------------ a script run
Init ==
    /\ script \in {"ETI", "ADE", "FNA"}
    /\ source \in Sources
    /\ script # "FNA" => source = "economictimes"
    /\ rows \in InputRows
    /\ pc = "first_pass" /\ idx = 1
    /\ article_data = <<>> /\ failed_urls = <<>> /\ paywall_urls = <<>>
    /\ recheck = EmptyLists /\ json_recheck = EmptyLists /\ files = NoFiles
    /\ events = <<>> /\ attempt = NoAttempt
    /\ doc = <<>> /\ out = NoOut

\* One iteration of the loop of process_articles: the call, the filing of
\* its result, the delay.  An exception leaving the call ends the run.
ProcessRow ==
    /\ pc = "first_pass" /\ idx <= Len(rows)
    /\ \E resp \in Responses(rows[idx]) :
         \E o \in {process_single_article(script, source, rows[idx], resp)} :
         \E lists \in {Filed([ok |-> article_data, paywall |-> paywall_urls,
                              failed |-> failed_urls], o.rec)} :
             /\ attempt' = [phase |-> "first_pass", url |-> rows[idx], resp |-> resp, out |-> o]
             /\ IF o.exc # ""
                THEN /\ pc' = "crashed"
                     /\ events' = events \o CallEvents(rows[idx], o)
                     /\ UNCHANGED << idx, article_data, paywall_urls, failed_urls >>
                ELSE /\ pc' = pc
                     /\ idx' = idx + 1
                     /\ article_data' = lists.ok
                     /\ paywall_urls' = lists.paywall
                     /\ failed_urls' = lists.failed
                     /\ events' = events \o CallEvents(rows[idx], o) \o <<Event("sleep", <<>>)>>
    /\ UNCHANGED << script, source, rows, recheck, json_recheck, files, doc, out >>

\* The loop of process_articles is over: save_results, then the recheck
\* when the scraper has one and paywall_urls is not empty.
SaveInitial ==
    /\ pc = "first_pass" /\ idx > Len(rows)
    /\ files' = save_results(files, failed_urls, paywall_urls)
    /\ IF script # "FNA" /\ paywall_urls # <<>>
       THEN pc' = "recheck" /\ idx' = 1
       ELSE pc' = "returned" /\ idx' = idx
    /\ UNCHANGED << script, source, rows, article_data, failed_urls, paywall_urls,
                    recheck, json_recheck, events, attempt, doc, out >>

\* Mutant: the recheck loop steps over every second paywalled record.
RecheckRow_skipping ==
    /\ pc = "recheck" /\ idx <= Len(paywall_urls)
    /\ \E resp \in Responses(paywall_urls[idx].url) :
         \E url \in {paywall_urls[idx].url} :
         \E o \in {process_single_article(script, source, url, resp)} :
             /\ attempt' = [phase |-> "recheck", url |-> url, resp |-> resp, out |-> o]
             /\ events' = events \o <<Event("sleep", <<>>)>> \o CallEvents(url, o)
             /\ IF o.exc # ""
                THEN pc' = "crashed" /\ UNCHANGED << idx, recheck >>
                ELSE pc' = pc /\ idx' = idx + 2 /\ recheck' = Filed(recheck, o.rec)
    /\ UNCHANGED << script, source, rows, article_data, failed_urls, paywall_urls,
                    json_recheck, files, doc, out >>

\* One iteration of the loop of recheck_paywall_articles: the delay, the
\* call, the filing of its result in the local lists.
RecheckRow ==
    /\ pc = "recheck" /\ idx <= Len(paywall_urls)
    /\ \E resp \in Responses(paywall_urls[idx].url) :
         \E url \in {paywall_urls[idx].url} :
         \E o \in {process_single_article(script, source, url, resp)} :
             /\ attempt' = [phase |-> "recheck", url |-> url, resp |-> resp, out |-> o]
             /\ events' = events \o <<Event("sleep", <<>>)>> \o CallEvents(url, o)
             /\ IF o.exc # ""
                THEN pc' = "crashed" /\ UNCHANGED << idx, recheck >>
                ELSE pc' = pc /\ idx' = idx + 1 /\ recheck' = Filed(recheck, o.rec)
    /\ UNCHANGED << script, source, rows, article_data, failed_urls, paywall_urls,
                    json_recheck, files, doc, out >>

\* recheck_paywall_articles has returned: the three updates of the lists
\* and the final save_results of process_articles.
RecheckMerge ==
    /\ pc = "recheck" /\ idx > Len(paywall_urls)
    /\ article_data' = IF recheck.ok # <<>> THEN article_data \o recheck.ok ELSE article_data
    /\ paywall_urls' = IF recheck.paywall # <<>> THEN recheck.paywall ELSE paywall_urls
    /\ failed_urls' = IF recheck.failed # <<>> THEN failed_urls \o recheck.failed ELSE failed_urls
    /\ files' = save_results(files, failed_urls', paywall_urls')
    /\ pc' = "returned"
    /\ UNCHANGED << script, source, rows, idx, recheck, json_recheck, events, attempt, doc, out >>

\* process_articles has returned to main.  ET_news_integrated's main goes on
\* to Step 4 when the paywall JSON of the day exists; the other mains end.
AfterProcessArticles ==
    /\ pc = "returned"
    /\ IF script = "ETI" /\ files.paywall_urls # <<>> /\ files.paywall_urls[1] # <<>>
       THEN pc' = "json" /\ idx' = 1
       ELSE pc' = "completed" /\ idx' = idx
    /\ UNCHANGED << script, source, rows, article_data, failed_urls, paywall_urls,
                    recheck, json_recheck, files, events, attempt, doc, out >>

\* One iteration of the loop of recheck_paywall_articles_from_json: the
\* call on a fresh scraper, the filing in the local lists, the delay.  The
\* function's own except clause ends it on any exception.
JsonRow ==
    /\ pc = "json" /\ idx <= Len(files.paywall_urls[1])
    /\ \E resp \in Responses(files.paywall_urls[1][idx].url) :
         \E url \in {files.paywall_urls[1][idx].url} :
         \E o \in {ETI_process_single_article(url, resp)} :
             /\ attempt' = [phase |-> "json", url |-> url, resp |-> resp, out |-> o]
             /\ IF o.exc # ""
                THEN /\ pc' = "completed"
                     /\ events' = events \o CallEvents(url, o)
                     /\ UNCHANGED << idx, json_recheck >>
                ELSE /\ pc' = pc
                     /\ idx' = idx + 1
                     /\ json_recheck' = Filed(json_recheck, o.rec)
                     /\ events' = events \o CallEvents(url, o) \o <<Event("sleep", <<>>)>>
    /\ UNCHANGED << script, source, rows, article_data, failed_urls, paywall_urls,
                    recheck, files, doc, out >>

\* The loop of recheck_paywall_articles_from_json is over: its JSON outputs.
JsonSave ==
    /\ pc = "json" /\ idx > Len(files.paywall_urls[1])
    /\ files' = [files EXCEPT
                   !.still_paywalled = IF json_recheck.paywall # <<>>
                                       THEN <<json_recheck.paywall>> ELSE @,
                   !.recheck_failed = IF json_recheck.failed # <<>>
                                      THEN <<json_recheck.failed>> ELSE @]
    /\ pc' = "completed"
    /\ UNCHANGED << script, source, rows, idx, article_data, failed_urls, paywall_urls,
                    recheck, json_recheck, events, attempt, doc, out >>

Next ==
    \/ ProcessRow
    \/ SaveInitial
    \/ RecheckRow
    \/ RecheckMerge
    \/ AfterProcessArticles
    \/ JsonRow
    \/ JsonSave

Spec == Init /\ [][Next]_vars

\* The run as the interpreter executes it: a script that can take its next
\* step takes it (each request returns or times out).
SpecFair == Init /\ [][Next]_vars /\ WF_vars(Next)

\* ------------------------------- the standalone loops (CPA and MINT scripts)
\*   CPA   src/check_paywall_articles.py  (recheck_paywall_articles)
\*   MINT  src/mint_news_integrated.py    (extract_article_content)

\* check_paywall_articles.extract_article_content: the article tag only,
\* with the removal list, boilerplate list and threshold of articles_data_ET.
CPA_extract_article_content(soup) ==
    LET article_tag == First(SelectSeq(Preorder(soup), LAMBDA e : e.tag = "article"))
    IN  IF article_tag = <<>> THEN None
        ELSE ADE_process_content_element(article_tag[1])

\* A record of the paywall JSON the pipeline wrote, as json.load returns it.
PaywallRecord(url) == ArticleData(url, None, None, <<"Paywall", " detected">>)

\* The urls a paywall JSON or a Mint url list may hold.
HttpRows == { r \in InputRows : \A i \in 1..Len(r) : Head(StrUrl(r[i])) = "http://" }

\* key_words of mint_news_integrated.main
MINT_key_words ==
    << "metlife", "group life insurance", "health insurance", "healthcare",
       "life insurance", "health", "insurance policy", "insurance plan",
       "insurance coverage", "insurance claim", "insurance claim process",
       "insurance claim settlement", "insurance claim approval",
       "insurance claim rejection" >>

\* A phrase of a Mint story that names a keyword, and one that does not.
KeywordText == [k |-> "Health Insurance", n |-> 16]

\* `keyword in content.lower()`
MINT_HasKeyword(content) ==
    \E i \in 1..Len(content) : \E j \in 1..Len(MINT_key_words) :
        /\ content[i].k = "Health Insurance"
        /\ MINT_key_words[j] \in {"health insurance", "health"}

cStoryBox == <<"storyPage_storyBox__zPlkE">>

\* A Mint story page with the given paragraphs.
MintStory(paragraphs) == << Container("div", <<cStoryBox>>, <<>>, paragraphs) >>

\* What the network may answer to a GET of a Mint url: a story about
\* insurance, a story on another subject, a page without the story box, a
\* transport failure, and a page on which processing raises.
MintResponses(url) ==
    { Ok(MintStory(<< Leaf("p", <<>>, <<>>, <<W(30), S(1), KeywordText>>),
                      Leaf("p", <<>>, <<>>, <<W(40)>>) >>)),
      Ok(MintStory(<< Leaf("p", <<>>, <<>>, <<W(70)>>) >>)),
      Ok(PageGood),
      RequestException(<<"404 Client Error: Not Found for url: ">> \o url),
      OtherException(<<"maximum recursion depth exceeded">>) }

\* The article text mint's loop builds from a fetched page; <<>> with
\* found FALSE when the story box is missing.
MINT_StoryText(soup) ==
    LET article_div == First(SelectSeq(Preorder(soup),
                                 LAMBDA e : e.tag = "div" /\ HasClass(e, cStoryBox)))
        paragraphs == IF article_div = <<>> THEN <<>>
                      ELSE SelectSeq(article_div[1].kids, LAMBDA k : k.tag = "p")
    IN  [found |-> article_div # <<>>,
         content |-> JoinSpace([i \in 1..Len(paragraphs) |-> Strip(get_text(paragraphs[i]))])]

InitStandalone ==
    /\ script \in {"CPA", "MINT"}
    /\ source = "none"
    /\ \E r \in HttpRows : \E present \in BOOLEAN :
         /\ script = "MINT" => present
         /\ rows = (IF script = "MINT" THEN r ELSE <<>>)
         /\ files = [NoFiles EXCEPT !.paywall_urls =
                        IF script = "CPA" /\ present
                        THEN << [i \in 1..Len(r) |-> PaywallRecord(r[i])] >> ELSE <<>>]
    /\ pc = (IF script = "CPA" THEN "cpa_load" ELSE "mint_loop")
    /\ idx = 1
    /\ article_data = <<>> /\ failed_urls = <<>> /\ paywall_urls = <<>>
    /\ recheck = EmptyLists /\ json_recheck = EmptyLists
    /\ events = <<>> /\ attempt = NoAttempt
    /\ doc = <<>> /\ out = NoOut

\* recheck_paywall_articles opens the paywall JSON; without the file it
\* returns at once.
CpaLoad ==
    /\ pc = "cpa_load"
    /\ IF files.paywall_urls = <<>>
       THEN pc' = "completed" /\ rows' = rows
       ELSE /\ pc' = "cpa_loop"
            /\ rows' = [i \in 1..Len(files.paywall_urls[1]) |-> files.paywall_urls[1][i].url]
    /\ UNCHANGED << script, source, idx, article_data, failed_urls, paywall_urls,
                    recheck, json_recheck, files, events, attempt, doc, out >>

\* One iteration of the loop of check_paywall_articles.recheck_paywall_articles:
\* request, extraction, filing and delay inside the try; the except clause
\* files the article with its error and goes on to the next article.
CpaRow ==
    /\ pc = "cpa_loop" /\ idx <= Len(rows)
    /\ \E resp \in Responses(rows[idx]) :
       \E article \in {files.paywall_urls[1][idx]} :
       \E response \in {requests_get(article.url, resp)} :
       \E content \in {IF response.kind = "ok"
                       THEN CPA_extract_article_content(response.soup) ELSE None} :
       \E bucket \in {IF response.kind # "ok" THEN "failed"
                      ELSE IF content # <<>> THEN "ok" ELSE "paywall"} :
       \E filed \in {CASE bucket = "failed" -> [article EXCEPT !.error = response.msg]
                       [] bucket = "ok" -> [article EXCEPT !.full_content = content]
                       [] OTHER -> article} :
         /\ recheck' = [recheck EXCEPT ![bucket] = Append(@, filed)]
         /\ events' = events \o CallEvents(article.url, response)
                        \o (IF bucket = "failed" THEN <<>> ELSE <<Event("sleep", <<>>)>>)
         /\ attempt' = [phase |-> "cpa", url |-> article.url, resp |-> resp,
                        out |-> Returned(filed, <<>>, response.sent), bucket |-> bucket]
    /\ idx' = idx + 1
    /\ UNCHANGED << script, source, rows, pc, article_data, failed_urls, paywall_urls,
                    json_recheck, files, doc, out >>

\* The loop is over: the JSON outputs of the non-empty lists.
CpaSave ==
    /\ pc = "cpa_loop" /\ idx > Len(rows)
    /\ files' = [files EXCEPT
                   !.still_paywalled = IF recheck.paywall # <<>> THEN <<recheck.paywall>> ELSE @,
                   !.recheck_failed = IF recheck.failed # <<>> THEN <<recheck.failed>> ELSE @]
    /\ pc' = "completed"
    /\ UNCHANGED << script, source, rows, idx, article_data, failed_urls, paywall_urls,
                    recheck, json_recheck, events, attempt, doc, out >>

\* One iteration of the loop of mint_news_integrated.extract_article_content:
\* request, story text, keyword filter and delay inside the try; both
\* except clauses `continue` to the next row.
MintRow ==
    /\ pc = "mint_loop" /\ idx <= Len(rows)
    /\ \E resp \in MintResponses(rows[idx]) :
       \E response \in {requests_get(rows[idx], resp)} :
       \E story \in {MINT_StoryText(response.soup)} :
       \E kept \in {response.kind = "ok" /\ story.found /\ MINT_HasKeyword(story.content)} :
         /\ article_data' = IF kept
                            THEN Append(article_data,
                                        [url |-> rows[idx], full_content |-> story.content])
                            ELSE article_data
         /\ events' = events \o CallEvents(rows[idx], response)
                        \o (IF response.kind = "ok" THEN <<Event("sleep", <<>>)>> ELSE <<>>)
         /\ attempt' = [phase |-> "mint", url |-> rows[idx], resp |-> resp,
                        out |-> Returned(ArticleData(rows[idx], story.content, None, None),
                                         <<>>, response.sent),
                        bucket |-> IF kept THEN "ok" ELSE "none"]
    /\ idx' = idx + 1
    /\ UNCHANGED << script, source, rows, pc, failed_urls, paywall_urls,
                    recheck, json_recheck, files, doc, out >>

\* The loop is over: the function returns the collated articles.
MintReturn ==
    /\ pc = "mint_loop" /\ idx > Len(rows)
    /\ pc' = "completed"
    /\ UNCHANGED << script, source, rows, idx, article_data, failed_urls, paywall_urls,
                    recheck, json_recheck, files, events, attempt, doc, out >>

NextStandalone ==
    \/ CpaLoad
    \/ CpaRow
    \/ CpaSave
    \/ MintRow
    \/ MintReturn

SpecStandalone == InitStandalone /\ [][NextStandalone]_vars

\* ------------------------------------------- the sanitizers on a candidate
\* The texts of an advertisement block and of a comment block.
AdText == [k |-> "#ad text", n |-> 25]
CommentText == [k |-> "#comment text", n |-> 40]

cTopAds == <<"top-", "ads">>
cComments == <<"comments">>
cCommentsSection == <<"comments", "-section">>

\* What a candidate element may hold: article text, advertisement blocks
\* whose class is or contains 'ads', comment blocks whose id is or contains
\* 'comments', text ending in the 'Read More News on' link line, and the
\* same with the line broken after 'Read More'.
KidPool ==
    { TextNode(<<W(MinContentLength + 1)>>),
      Leaf("div", <<cAds>>, <<>>, <<AdText>>),
      Leaf("div", <<cTopAds>>, <<>>, <<AdText>>),
      Leaf("div", <<>>, cComments, <<CommentText>>),
      Leaf("div", <<>>, cCommentsSection, <<CommentText>>),
      TextNode(<< W(MinContentLength + 1), S(1), Phrase("Read More News on"), S(1), W(10) >>),
      TextNode(<< W(MinContentLength + 1), S(1), Phrase("Read More"), S(2),
                  Phrase("News on"), S(1), W(10) >>) }

\* The candidates _process_content_element is applied to.
Candidates ==
    { Container("article", <<>>, <<>>, kids) :
        kids \in UNION { [1..n -> KidPool] : n \in 1..MaxKids } }

InitSanitizer ==
    /\ doc \in { <<c>> : c \in Candidates }
    /\ out = NoOut
    /\ script = "none" /\ source = "none" /\ rows = <<>> /\ pc = "none" /\ idx = 0
    /\ article_data = <<>> /\ failed_urls = <<>> /\ paywall_urls = <<>>
    /\ recheck = EmptyLists /\ json_recheck = EmptyLists /\ files = NoFiles
    /\ events = <<>> /\ attempt = NoAttempt

\* Call ET_news_integrated's _process_content_element on the candidate.
SanitizeETI ==
    /\ out = NoOut
    /\ out' = [NoOut EXCEPT !.fn = "_process_content_element", !.script = "ETI",
                            !.result = [content |-> ETI_process_content_element(doc[1]),
                                        method |-> None],
                            !.soup = doc, !.calls = 1]
    /\ UNCHANGED << doc, runVars >>

\* Call articles_data_ET's _process_content_element on the candidate; the
\* candidate itself loses the elements the function decomposes.
SanitizeADE ==
    /\ out = NoOut
    /\ out' = [NoOut EXCEPT !.fn = "_process_content_element", !.script = "ADE",
                            !.result = [content |-> ADE_process_content_element(doc[1]),
                                        method |-> None],
                            !.soup = <<[doc[1] EXCEPT !.kids =
                                          SelectSeq(@, LAMBDA k : ~ADE_Unwanted(k))]>>,
                            !.calls = 1]
    /\ UNCHANGED << doc, runVars >>

NextSanitizer == SanitizeETI \/ SanitizeADE

SpecSanitizer == InitSanitizer /\ [][NextSanitizer]_vars

\* ------------------------------- the script selection of the collection page
\*   src/data/1_News_Collection.py  (get_scripts_to_run)
\* sources of the multiselect
NewsSources == {"Economic Times", "Mint", "The Hindu", "All Sources"}

\* The selections st.multiselect can return: lists of distinct sources.
Selections ==
    { sel \in UNION { [1..n -> NewsSources] : n \in 0..Cardinality(NewsSources) } :
        \A i, j \in 1..Len(sel) : i # j => sel[i] # sel[j] }

\* `x in sources` on a list
InList(x, list) == \E i \in 1..Len(list) : list[i] = x

\* get_scripts_to_run: the script file names, written as in the source.
get_scripts_to_run(sources) ==
    IF InList("All Sources", sources)
    THEN << <<"ET", "_news_integrated.py">>, <<"mint", "_news_integrated.py">>,
            <<"Hindu", "_news_integrated.py">> >>
    ELSE (IF InList("Economic Times", sources)
          THEN << <<"ET", "_news_integrated.py">> >> ELSE <<>>)
         \o (IF InList("Mint", sources)
             THEN << <<"Mint", "_news_integrated.py">> >> ELSE <<>>)
         \o (IF InList("The Hindu", sources)
             THEN << <<"Hindu", "_news_integrated.py">> >> ELSE <<>>)

InitScripts ==
    /\ doc \in Selections
    /\ out = NoOut
    /\ script = "none" /\ source = "none" /\ rows = <<>> /\ pc = "none" /\ idx = 0
    /\ article_data = <<>> /\ failed_urls = <<>> /\ paywall_urls = <<>>
    /\ recheck = EmptyLists /\ json_recheck = EmptyLists /\ files = NoFiles
    /\ events = <<>> /\ attempt = NoAttempt

\* scripts_to_run = get_scripts_to_run(selected_sources)
GetScripts ==
    /\ out = NoOut
    /\ out' = [NoOut EXCEPT !.fn = "get_scripts_to_run",
                            !.result = [content |-> get_scripts_to_run(doc), method |-> None],
                            !.calls = 1]
    /\ UNCHANGED << doc, runVars >>

NextScripts == GetScripts

SpecScripts == InitScripts /\ [][NextScripts]_vars

\* ------------------------------------------------------------------ claims
\* Every record the run holds: the three buckets and the local lists.
AllRecords ==
    { article_data[i] : i \in 1..Len(article_data) }
    \cup { paywall_urls[i] : i \in 1..Len(paywall_urls) }
    \cup { failed_urls[i] : i \in 1..Len(failed_urls) }
    \cup UNION { { l.ok[i] : i \in 1..Len(l.ok) } \cup { l.paywall[i] : i \in 1..Len(l.paywall) }
                 \cup { l.failed[i] : i \in 1..Len(l.failed) } : l \in {recheck, json_recheck} }

ExactlyOneSet(rec) == (rec.full_content # None) # (rec.error # None)

\* C1: every ArticleData returned by process_single_article, on every path
\* and in each of the three scrapers, has exactly one of full_content and
\* error set; so has every record held in a bucket or a recheck list.
C1_MutualExclusion ==
    /\ attempt.phase # "none" => attempt.out.exc = "" /\ ExactlyOneSet(attempt.out.rec)
    /\ \A rec \in AllRecords : ExactlyOneSet(rec)

\* C1 witness: the three buckets are all in use and the last call went
\* through the handler of an unexpected exception.
C1_Witness ==
    /\ article_data # <<>> /\ paywall_urls # <<>> /\ failed_urls # <<>>
    /\ attempt.resp.kind = "Exception"
    /\ attempt.out.rec.error # None /\ Head(attempt.out.rec.error) = "Unexpected error: "

Urls(bucket) == { bucket[i].url : i \in 1..Len(bucket) }

\* C2: once process_articles has finished (first pass and recheck pass),
\* every input row is held as one record in exactly one bucket: the
\* buckets are pairwise disjoint by url and their sizes sum to the number
\* of rows.
C2_OneTerminalRecord ==
    (script \in {"ETI", "ADE"} /\ pc \in {"returned", "json", "completed"}) =>
        /\ Len(article_data) + Len(paywall_urls) + Len(failed_urls) = Len(rows)
        /\ Urls(article_data) \cap Urls(paywall_urls) = {}
        /\ Urls(article_data) \cap Urls(failed_urls) = {}
        /\ Urls(paywall_urls) \cap Urls(failed_urls) = {}
        /\ \A i \in 1..Len(rows) :
             rows[i] \in Urls(article_data) \cup Urls(paywall_urls) \cup Urls(failed_urls)

\* Number of events of kind ev for url.
Count(ev, url) == Cardinality({ i \in 1..Len(events) : events[i] = Event(ev, url) })
\* Number of events of kind ev.
Total(ev) == Cardinality({ i \in 1..Len(events) : events[i].ev = ev })

\* C3: in a full run of ET_news_integrated.main() no article is submitted
\* more than twice (a paywalled one is re-submitted exactly once), no url
\* is requested more than twice and at most 2*N requests are sent.
C3_OneRetryPass ==
    (script = "ETI" /\ pc = "completed") =>
        /\ \A i \in 1..Len(rows) : Count("call", rows[i]) <= 2 /\ Count("http", rows[i]) <= 2
        /\ Total("http") <= 2 * Len(rows)

IsPrefix(p, q) == Len(p) <= Len(q) /\ SubSeq(q, 1, Len(p)) = p

\* C4: in ET_news_integrated's process_single_article the stages run in
\* the order fetch, classifier, locator, each at most once; the classifier
\* only after a successful fetch, the locator only after the classifier
\* said no; a transport failure gives Failed, a positive classifier gives
\* 'Paywall detected', an empty locator 'No content found', and content
\* gives Extracted with the locator's content and method.
C4_StageOrder ==
    (script = "ETI" /\ attempt.phase # "none") =>
        LET a == attempt.out
            page == attempt.resp.soup
            ran(st) == \E i \in 1..Len(a.stages) : a.stages[i] = st
        IN  /\ IsPrefix(a.stages, <<"fetch", "classify", "locate">>)
            /\ ran("classify") => attempt.resp.kind = "ok" /\ a.sent
            /\ ran("locate") => ~ETI_is_paywall_page(page)
            /\ (ran("fetch") /\ attempt.resp.kind = "RequestException") =>
                  /\ a.rec.full_content = None
                  /\ IsPrefix(<<"Request error: ">>, a.rec.error)
                  /\ a.stages = <<"fetch">>
            /\ (a.sent /\ attempt.resp.kind = "ok" /\ ETI_is_paywall_page(page)) =>
                  /\ a.rec = ArticleData(attempt.url, None, None, <<"Paywall", " detected">>)
                  /\ a.stages = <<"fetch", "classify">>
            /\ (a.sent /\ attempt.resp.kind = "ok" /\ ~ETI_is_paywall_page(page)) =>
                  /\ a.stages = <<"fetch", "classify", "locate">>
                  /\ IF ETI_extract_article_content(page) = NoContent
                     THEN a.rec = ArticleData(attempt.url, None, None, <<"No content found">>)
                     ELSE a.rec = ArticleData(attempt.url,
                                              ETI_extract_article_content(page).content,
                                              ETI_extract_article_content(page).method, None)

\* C4 witness: an attempt that went through all three stages and extracted.
C4_Witness ==
    /\ script = "ETI"
    /\ attempt.out.stages = <<"fetch", "classify", "locate">>
    /\ attempt.out.rec.extraction_method = <<"article tag">>
    /\ attempt.out.rec.error = None

\* C5: process_single_article never raises, whatever the fetch result or
\* the page, and process_articles calls it for every row whatever became
\* of the rows before.
C5_BatchNeverAborts ==
    /\ pc # "crashed"
    /\ attempt.out.exc = ""
    /\ \A i \in 1..Len(rows) :
         (pc # "first_pass" \/ i < idx) => Count("call", rows[i]) >= 1
    /\ pc = "first_pass" =>
         Len(article_data) + Len(paywall_urls) + Len(failed_urls) = idx - 1

\* C5 witness: the first of two rows failed on an unexpected exception and
\* the second was still processed and extracted.
C5_Witness ==
    /\ Len(rows) = 2 /\ pc = "completed"
    /\ failed_urls # <<>> /\ failed_urls[1].url = rows[1]
    /\ Head(failed_urls[1].error) = "Unexpected error: "
    /\ article_data # <<>> /\ article_data[1].url = rows[2]

\* C6: a missing (NaN), empty or placeholder url gives, in every
\* process_single_article of the repository, a record whose error is
\* exactly 'Invalid URL', and no request is issued.
C6_InvalidUrlShortCircuit ==
    (attempt.phase # "none" /\ attempt.url \in {NaN, <<>>, URL_NOT_AVAILABLE}) =>
        /\ attempt.out.rec.error = <<"Invalid URL">>
        /\ ~attempt.out.sent
        /\ attempt.out.stages = <<>>

\* The indicator classes is_paywall_page of a script looks for.
IndicatorClasses(sc, src) ==
    CASE sc = "ETI" -> ETI_paywall_indicators
      [] sc = "ADE" -> ADE_paywall_indicators
      [] OTHER -> FNA_paywall_indicators(src)

\* Some element of the page carries one of the indicator classes.
HasIndicatorClass(sc, src, page) ==
    \E i \in 1..Len(Preorder(page)) : \E j \in 1..Len(IndicatorClasses(sc, src)) :
        HasClass(Preorder(page)[i], IndicatorClasses(sc, src)[j])

\* The best-effort article container of the fallback heuristic: a known
\* content class or the article tag.
ArticleContainers(page) ==
    SelectSeq(Preorder(page), LAMBDA e :
        e.tag = "article" \/ HasClass(e, cArtText) \/ HasClass(e, cArticleText)
        \/ HasClass(e, cArticle_Content))

\* C7: is_paywall_page returns true for every page holding an element
\* with an explicit paywall-indicator class, however much article text the
\* page also holds: the marker check precedes the length fallback.
C7_MarkerOverridesLength ==
    (out.fn = "is_paywall_page" /\ HasIndicatorClass(out.script, out.source, doc)) =>
        out.paywall

\* C7 witness: articles_data_ET's classifier was applied to a page with a
\* paywall box and an article long enough to pass the length fallback.
C7_Witness ==
    /\ out.fn = "is_paywall_page" /\ out.script = "ADE"
    /\ HasIndicatorClass("ADE", out.source, doc)
    /\ ~ADE_LengthFallback(doc)
    /\ out.paywall

\* C8: for a page without any explicit paywall marker, is_paywall_page
\* says paywalled exactly when the page has no article container or the
\* container's text is shorter than 200 characters (so a container of
\* exactly 200 characters is not paywalled).  Stated for pages with at
\* most one candidate container, where "the container" is unambiguous.
C8_LengthFallback ==
    (out.fn = "is_paywall_page" /\ ~ETI_is_paywall_page(doc)
        /\ ~HasIndicatorClass(out.script, out.source, doc)
        /\ Len(ArticleContainers(doc)) <= 1) =>
        (out.paywall <=>
            \/ ArticleContainers(doc) = <<>>
            \/ TextLen(Strip(get_text(ArticleContainers(doc)[1]))) < MinContentLength)

\* The first article element of the page, as a sequence of 0 or 1.
FirstArticle(page) == First(SelectSeq(Preorder(page), LAMBDA e : e.tag = "article"))

\* The results of the cascade steps of ET_news_integrated's locator, in
\* cascade order.
ETI_Steps(page) ==
    << ETI_ArticleStep(page) >>
    \o [i \in 1..Len(ETI_content_selectors) |-> ETI_ClassStep(page, ETI_content_selectors[i])]
    \o [i \in 1..Len(ETI_id_selectors) |-> ETI_IdStep(page, ETI_id_selectors[i])]
    \o << ETI_ParagraphStep(page) >>

C10_CascadeOrder ==
    (out.fn = "extract_article_content" /\ out.script = "ETI") =>
        LET steps == ETI_Steps(doc)
        IN  /\ \A i \in 1..Len(steps) :
                  (steps[i] # NoContent /\ \A j \in 1..(i - 1) : steps[j] = NoContent) =>
                      /\ out.result = steps[i]
                      /\ TextLen(out.result.content) > MinContentLength
            /\ (out.result = NoContent) <=> (\A i \in 1..Len(steps) : steps[i] = NoContent)

\* C10 witness: the article step and the class steps give nothing, an id
\* step and the paragraph heuristic both qualify, and the id step's
\* content is returned.
C10_Witness ==
    /\ out.fn = "extract_article_content" /\ out.script = "ETI"
    /\ ETI_ParagraphStep(doc) # NoContent
    /\ ETI_ParagraphStep(doc) # out.result
    /\ out.result.method = <<"id: ">> \o cStoryBody

\* C11: every content string extract_article_content returns, whichever
\* cascade step produced it, went through the sanitizer before its length
\* was tested: sanitizing it again changes nothing (no boilerplate phrase is
\* left to truncate at, no whitespace left to normalise).
C11_EveryStepSanitized ==
    (out.fn = "extract_article_content" /\ out.script = "ETI" /\ out.result # NoContent) =>
        clean_text(RemoveBoilerplate(out.result.content, ETI_boilerplate_text))
            = out.result.content

\* The token indices of text t at which some phrase of the list occurs.
Occurrences(t, boilerplate) ==
    { i \in 1..Len(t) : \E j \in 1..Len(boilerplate) : OccursAt(boilerplate[j], t, i) }

\* The prefix of t before the earliest occurrence of any phrase of the
\* list; t itself when no phrase occurs.
PrefixBeforeEarliest(t, boilerplate) ==
    IF Occurrences(t, boilerplate) = {} THEN t
    ELSE SubSeq(t, 1, (CHOOSE i \in Occurrences(t, boilerplate) :
                           \A j \in Occurrences(t, boilerplate) : i <= j) - 1)

\* The text _process_content_element extracts from an element before the
\* boilerplate loop.
ETI_ExtractedText(element) ==
    IF ETI_Pruned(element) = <<>> THEN <<>> ELSE get_text_sep_strip(ETI_Pruned(element)[1])

\* C12: the truncation step of the sanitizer yields exactly the prefix of
\* the extracted text before the earliest occurrence of any configured
\* boilerplate phrase (the text itself when none occurs), also when
\* configured phrases overlap.
C12_TruncateAtEarliestPhrase ==
    (out.fn = "extract_article_content" /\ out.script = "ETI") =>
        \A i \in 1..Len(Preorder(doc)) :
            RemoveBoilerplate(ETI_ExtractedText(Preorder(doc)[i]), ETI_boilerplate_text)
                = PrefixBeforeEarliest(ETI_ExtractedText(Preorder(doc)[i]), ETI_boilerplate_text)

\* C13: running extract_article_content twice on the same HTML input, on
\* a fresh parse or on the same parsed page, returns the same cleaned text
\* and the same method tag both times.
C13_LocatorIdempotent ==
    (out.fn = "extract_article_content" /\ out.calls = 2 /\ out.script \in {"ETI", "ADE"}) =>
        out.second = out.result

\* The positions of the article attempts in the event log.
Calls == { i \in 1..Len(events) : events[i].ev = "call" }

\* C14: in every article-processing loop a 2-second delay occurs after
\* each article and before the next article's request, whatever the
\* article's outcome was (a raised transport exception included): between
\* any two attempts the log holds a delay.
C14_DelayAfterEveryArticle ==
    \A i, j \in Calls : i < j => \E k \in (i + 1)..(j - 1) : events[k].ev = "sleep"

\* The outcome class of a record returned by process_single_article:
\* Paywalled when the classifier fired, Extracted with content, Failed
\* otherwise.
OutcomeClass(result) ==
    IF result.full_content # None THEN "Extracted"
    ELSE IF result.error = <<"Paywall", " detected">> THEN "Paywalled"
    ELSE "Failed"

\* The records the recheck pass returned, of one outcome class.
Rechecked(class) ==
    SelectSeq(recheck.ok \o recheck.paywall \o recheck.failed,
              LAMBDA r : OutcomeClass(r) = class)

\* C15: when the recheck pass of process_articles updates the buckets, no
\* record classified as paywalled again is added to failed_urls,
\* failed_urls grows by exactly the number of rechecked articles whose
\* outcome is Failed, and every still-paywalled record is in paywall_urls.
C15_RecheckKeepsPaywalled ==
    [][(pc = "recheck" /\ pc' = "returned") =>
        LET added == SubSeq(failed_urls', Len(failed_urls) + 1, Len(failed_urls'))
            still == Rechecked("Paywalled")
        IN  /\ \A i \in 1..Len(added) : OutcomeClass(added[i]) # "Paywalled"
            /\ Len(failed_urls') = Len(failed_urls) + Len(Rechecked("Failed"))
            /\ \A i \in 1..Len(still) :
                 \E j \in 1..Len(paywall_urls') : paywall_urls'[j] = still[i]]_vars

\* The bucket of the recheck that corresponds to an outcome class.
BucketOf(class) ==
    CASE class = "Extracted" -> "ok"
      [] class = "Paywalled" -> "paywall"
      [] OTHER -> "failed"

\* C16: a recheck implementation gives, for the same fetch result and
\* document, the outcome class first-pass process_single_article gives and
\* files the article in the corresponding bucket; here the loop of
\* check_paywall_articles against process_single_article of
\* articles_data_ET, whose sanitizer it shares.
C16_RecheckSameStateMachine ==
    attempt.phase = "cpa" =>
        attempt.bucket =
            BucketOf(OutcomeClass(ADE_process_single_article(attempt.url, attempt.resp).rec))

\* C17: when ET_news_integrated's process_single_article fetches a page
\* that the paywall test lets through and whose <article> element gives
\* more than 200 characters of sanitized text, the record returned carries
\* that text as full_content (at least 200 characters), the method
\* 'article tag' and no error.
C17_ArticleTagExtraction ==
    (/\ script = "ETI" /\ attempt.phase # "none"
     /\ requests_get(attempt.url, attempt.resp).kind = "ok"
     /\ ~ETI_is_paywall_page(attempt.resp.soup)
     /\ FirstArticle(attempt.resp.soup) # <<>>
     /\ TextLen(ETI_CleanedText(FirstArticle(attempt.resp.soup)[1])) > MinContentLength) =>
        /\ attempt.out.exc = ""
        /\ attempt.out.rec.full_content = ETI_CleanedText(FirstArticle(attempt.resp.soup)[1])
        /\ TextLen(attempt.out.rec.full_content) >= MinContentLength
        /\ attempt.out.rec.extraction_method = <<"article tag">>
        /\ attempt.out.rec.error = None

\* C17 witness: a first-pass attempt fetched the article page whose text
\* runs into a call-to-action phrase and returned the 201 characters before
\* the phrase with the method 'article tag'.
C17_Witness ==
    /\ script = "ETI" /\ attempt.phase = "first_pass"
    /\ attempt.resp = Ok(PageBoiler)
    /\ ~ETI_is_paywall_page(attempt.resp.soup)
    /\ attempt.out.rec.full_content = <<W(MinContentLength + 1)>>
    /\ attempt.out.rec.extraction_method = <<"article tag">>

\* The element soup.find(id=id_name) returns, as a sequence of length 0 or 1.
FirstWithId(page, id_name) == First(SelectSeq(Preorder(page), LAMBDA e : e.id = id_name))

\* The positions in id_selectors whose element gives more than 200
\* characters of sanitized text.
QualifyingIds(page) ==
    { i \in 1..Len(ETI_id_selectors) :
        /\ FirstWithId(page, ETI_id_selectors[i]) # <<>>
        /\ TextLen(ETI_CleanedText(FirstWithId(page, ETI_id_selectors[i])[1])) > MinContentLength }

\* No <article> element and no element of a class in content_selectors.
NoArticleNoClass(page) ==
    LET nodes == Preorder(page)
    IN  \A i \in 1..Len(nodes) :
            /\ nodes[i].tag # "article"
            /\ \A j \in 1..Len(ETI_content_selectors) :
                  ~HasClass(nodes[i], ETI_content_selectors[j])

\* C18: ET_news_integrated's extract_article_content, on a page with no
\* <article> element, no element of a content-selector class, and an
\* element found by an id selector that gives more than 200 characters,
\* returns that element's text tagged 'id: <name>' (the first such name in
\* list order); the steps before it do not stand in its way.
C18_IdStepReachable ==
    (/\ out.fn = "extract_article_content" /\ out.script = "ETI"
     /\ NoArticleNoClass(doc)
     /\ QualifyingIds(doc) # {}) =>
        LET ids == QualifyingIds(doc)
            i == CHOOSE k \in ids : \A l \in ids : k <= l
        IN  /\ out.result.method = <<"id: ">> \o ETI_id_selectors[i]
            /\ out.result.content = ETI_CleanedText(FirstWithId(doc, ETI_id_selectors[i])[1])

\* C18 witness: a page of a subscribe button and a div with id story-body
\* holding 201 characters; the locator returned them as 'id: story-body'.
C18_Witness ==
    /\ out.fn = "extract_article_content" /\ out.script = "ETI"
    /\ doc = << Leaf("div", <<>>, cSubscribeBtn, <<W(20)>>),
                Container("div", <<>>, cStoryBody, BodyText(MinContentLength + 1)) >>
    /\ NoArticleNoClass(doc)
    /\ out.result = [content |-> <<W(MinContentLength + 1)>>,
                     method |-> <<"id: ">> \o cStoryBody]

\* The three other method tags as the locator returned them.
ReachedArticleTag ==
    out.fn = "extract_article_content" /\ out.script = "ETI"
        /\ out.result.method = <<"article tag">>
ReachedClassTag ==
    out.fn = "extract_article_content" /\ out.script = "ETI"
        /\ out.result.method = <<"class: ">> \o cArtText
ReachedParagraphsTag ==
    out.fn = "extract_article_content" /\ out.script = "ETI"
        /\ out.result.method = <<"paragraphs in main content">>

\* Some element of the page has a class or an id that contains one of the
\* indicator substrings of the script's is_paywall_page.
HasIndicatorAttribute(sc, src, page) ==
    \E i \in 1..Len(Preorder(page)) : \E j \in 1..Len(IndicatorClasses(sc, src)) :
        \/ ClassContains(Preorder(page)[i], IndicatorClasses(sc, src)[j])
        \/ InStr(IndicatorClasses(sc, src)[j], Preorder(page)[i].id)

\* C19: is_paywall_page returns true for every page with an element whose
\* class attribute or whose id attribute contains one of the configured
\* paywall-indicator substrings (an element with id 'subscribeBtn' and no
\* class included).
C19_ClassOrIdMarker ==
    (out.fn = "is_paywall_page" /\ HasIndicatorAttribute(out.script, out.source, doc)) =>
        out.paywall

\* C20: in every sanitizer the text inside a descendant script, style,
\* noscript, iframe or form element of the candidate never appears in the
\* sanitized output, whatever classes the element carries: no content the
\* locators return holds the text of a sign-up form.
C20_EmbeddedElementsRemoved ==
    (out.fn = "extract_article_content" /\ out.result # NoContent) =>
        \A i \in 1..Len(out.result.content) : out.result.content[i] # FormText

\* An element of ET_news_integrated's noise vocabulary: its class or its
\* id contains an entry of unwanted_classes or unwanted_ids.
ETI_IsNoise(e) ==
    \/ \E i \in 1..Len(ETI_unwanted_classes) : ClassContains(e, ETI_unwanted_classes[i])
    \/ \E i \in 1..Len(ETI_unwanted_ids) : InStr(ETI_unwanted_ids[i], e.id)

\* C21: ET_news_integrated's sanitizer removes every descendant whose
\* class or id contains an entry of the noise vocabulary, however many
\* there are: the text of no such element is in the output.
C21_NoiseRemoved ==
    (out.fn = "_process_content_element" /\ out.script = "ETI"
       /\ out.result.content # None) =>
        \A k \in 1..Len(doc[1].kids) :
            ETI_IsNoise(doc[1].kids[k]) =>
                \A i \in 1..Len(out.result.content) :
                    out.result.content[i] # doc[1].kids[k].text[1]

\* C22: when mint_news_integrated.extract_article_content returns, every
\* input row has exactly one record in the function's output, an extracted
\* article or a recorded failure.
C22_MintOneRecordPerRow ==
    (script = "MINT" /\ pc = "completed") =>
        \A i \in 1..Len(rows) :
            Cardinality({ j \in 1..Len(article_data) : article_data[j].url = rows[i] }) = 1

\* In how many of the three buckets a record with this url is.
BucketsHolding(url) ==
    Cardinality({ b \in {"article_data", "paywall_urls", "failed_urls"} :
        LET l == CASE b = "article_data" -> article_data
                   [] b = "paywall_urls" -> paywall_urls
                   [] OTHER -> failed_urls
        IN  \E j \in 1..Len(l) : l[j].url = url })

\* C23: during the first pass of process_articles, after k rows the three
\* buckets hold k records together, each processed row's record is in
\* exactly one bucket, and a step of the first pass only appends: every
\* bucket keeps the records it had, in place and unchanged.
C23_FirstPassBuckets ==
    /\ [](pc = "first_pass" =>
            /\ Len(article_data) + Len(paywall_urls) + Len(failed_urls) = idx - 1
            /\ \A i \in 1..(idx - 1) : BucketsHolding(rows[i]) = 1)
    /\ [][(pc = "first_pass" /\ pc' = "first_pass") =>
            /\ IsPrefix(article_data, article_data')
            /\ IsPrefix(paywall_urls, paywall_urls')
            /\ IsPrefix(failed_urls, failed_urls')]_vars

\* C23 witness: ET_news_integrated's first pass has processed two rows, an
\* extracted one and a paywalled one.
C23_Witness ==
    /\ script = "ETI" /\ pc = "first_pass" /\ idx = 3
    /\ Len(article_data) = 1 /\ Len(paywall_urls) = 1 /\ failed_urls = <<>>
    /\ paywall_urls[1].error = <<"Paywall", " detected">>

\* The urls of the attempts so far, in the order they were made.
AttemptedUrls ==
    LET calls == SelectSeq(events, LAMBDA e : e.ev = "call")
    IN  [i \in 1..Len(calls) |-> calls[i].url]

\* C24: process_articles of ArticleScraper terminates on every batch, and
\* its attempts are one per input row in input order, then (after the
\* first pass is over and its results are saved) one per record of the
\* paywalled bucket in bucket order: N + P attempts when it returns.
C24_TerminatesInOrder ==
    /\ <>(pc \in {"returned", "json", "completed"})
    /\ [](script \in {"ETI", "ADE"} =>
            /\ pc = "first_pass" =>
                 /\ idx - 1 <= Len(rows)
                 /\ AttemptedUrls = SubSeq(rows, 1, idx - 1)
            /\ pc = "recheck" =>
                 /\ idx - 1 <= Len(paywall_urls)
                 /\ files.paywall_urls = <<paywall_urls>>
                 /\ AttemptedUrls =
                        rows \o [j \in 1..(idx - 1) |-> paywall_urls[j].url]
            /\ pc = "returned" =>
                 Len(AttemptedUrls) = Len(rows)
                     + Len(recheck.ok) + Len(recheck.paywall) + Len(recheck.failed))

\* C24 witness: ET_news_integrated's process_articles returned after two
\* first-pass attempts and two recheck attempts.
C24_Witness ==
    /\ script = "ETI" /\ pc = "returned"
    /\ Len(rows) = 2
    /\ Len(recheck.ok) + Len(recheck.paywall) + Len(recheck.failed) = 2
    /\ AttemptedUrls = rows \o rows

\* C25: every record check_paywall_articles.recheck_paywall_articles
\* places in its recovered, still-paywall or failed list has exactly one of
\* full_content and error set.
C25_StandaloneMutualExclusion ==
    script = "CPA" =>
        \A b \in {"ok", "paywall", "failed"} :
            \A i \in 1..Len(recheck[b]) : ExactlyOneSet(recheck[b][i])

\* C26: an attempt of the first pass or of the recheck pass is filed in
\* the paywalled bucket only if the page was fetched and is_paywall_page
\* returned true for it; a transport failure or an unexpected exception
\* goes to the failures, whatever its error text contains.
C26_PaywalledOnlyByClassifier ==
    (/\ script = "ETI" /\ attempt.phase \in {"first_pass", "recheck"}
     /\ \/ \E j \in 1..Len(paywall_urls) : paywall_urls[j] = attempt.out.rec
        \/ \E j \in 1..Len(recheck.paywall) : recheck.paywall[j] = attempt.out.rec) =>
        /\ requests_get(attempt.url, attempt.resp).kind = "ok"
        /\ ETI_is_paywall_page(attempt.resp.soup)

\* The boilerplate list of a script.
BoilerplateOf(sc) == IF sc = "ETI" THEN ETI_boilerplate_text ELSE ADE_boilerplate_text

\* C27: the text _process_content_element returns holds no configured
\* boilerplate phrase, also when the input wrote the phrase with a line
\* break, tabs or several spaces between its words.
C27_NoBoilerplateLeft ==
    (out.fn = "_process_content_element" /\ out.result.content # None) =>
        \A i \in 1..Len(BoilerplateOf(out.script)) :
            FindPhrase(BoilerplateOf(out.script)[i], out.result.content) = 0

\* C28: in articles_data_ET, for every page without an explicit
\* paywall-indicator class from which extract_article_content returns
\* content, is_paywall_page returns false, so that process_single_article
\* extracts the article instead of reporting 'Paywall detected'.
C28_ClassifierAgreesWithLocator ==
    (/\ out.fn = "extract_article_content" /\ out.script = "ADE"
     /\ ~HasIndicatorClass("ADE", out.source, doc)
     /\ out.result # NoContent) =>
        /\ ~ADE_is_paywall_page(doc)
        /\ ADE_process_single_article(UrlA, Ok(doc)).rec.full_content = out.result.content

ScriptSet(scripts) == { scripts[i] : i \in 1..Len(scripts) }

\* C30: every script name get_scripts_to_run returns for a selection of
\* individual sources is one of the names it returns for 'All Sources',
\* and the three individual sources together give exactly the set of names
\* that 'All Sources' gives (names compared case-sensitively).
C30_ScriptNamesConsistent ==
    out.fn = "get_scripts_to_run" =>
        /\ ScriptSet(out.result.content) \subseteq ScriptSet(get_scripts_to_run(<<"All Sources">>))
        /\ ({ doc[i] : i \in 1..Len(doc) } = {"Economic Times", "Mint", "The Hindu"}) =>
              ScriptSet(out.result.content) = ScriptSet(get_scripts_to_run(<<"All Sources">>))

====
